---- MODULE Spec2Model ----
(***************************************************************************)
(* librequests (requests.c): a libcurl wrapper.  The model is a state      *)
(* machine over the request struct(s) req_t, the C heap (objects obtained  *)
(* from calloc/realloc/strndup/malloc and from the engine), the            *)
(* process-wide flag IS_FIRST and the position of the one blocking         *)
(* exchange in flight.  Strings and buffers are byte sequences: a memory   *)
(* image is the sequence of bytes found at a pointer.                      *)
(***************************************************************************)
EXTENDS Integers, Sequences, FiniteSets, TLC

---------------------------------------------------------------------------
(* Bounds of the model                                                     *)

MaxChunk == 2        \* longest body chunk / header line delivered
MaxObj == 9          \* heap objects created in one behaviour
MaxHdrs == 2         \* longest custom header array handed to POST/PUT
MaxPairs == 2        \* longest key/value array handed to the encoder
MaxReqs == 1         \* requests made in one behaviour
MaxCbs == 1          \* callbacks the engine makes during one exchange
MaxDeliveries == 2   \* the same, where the deliveries are what is examined
MaxRetries == 2      \* requests made in one behaviour, where retries are examined

---------------------------------------------------------------------------
(* Values                                                                  *)

NULL == 0
INDET == 0 - 1       \* an indeterminate (never written) field or slot
NUL == 0
CR == 13
LF == 10
CURLE_OK == 0
CURLE_WRITE_ERROR == 23
CURLE_OUT_OF_MEMORY == 27
OK_UNSET == 0 - 1    \* req->ok after init

Ctx == {1, 2}

Min(a, b) == IF a < b THEN a ELSE b

\* all sequences over S of length 0..n
RECURSIVE SeqsUpTo(_, _)
SeqsUpTo(S, n) ==
    IF n = 0 THEN {<<>>}
    ELSE LET T == SeqsUpTo(S, n - 1)
         IN T \cup {Append(t, x) : t \in {u \in T : Len(u) = n - 1}, x \in S}

SeqsOfLen(S, n) == [1..n -> S]

RECURSIVE Concat(_)
Concat(ss) == IF ss = <<>> THEN <<>> ELSE Head(ss) \o Concat(Tail(ss))

---------------------------------------------------------------------------
(* The C string functions the code calls, on memory images                 *)

HasNul(m) == \E i \in 1..Len(m) : m[i] = NUL

\* number of bytes before the first NUL (the whole image when it has none:
\* the caller decides what running off the image means)
Strlen(m) ==
    IF HasNul(m)
    THEN (CHOOSE i \in 1..Len(m) : m[i] = NUL /\ \A j \in 1..(i - 1) : m[j] # NUL) - 1
    ELSE Len(m)

\* the string a memory image holds
CStr(m) == SubSeq(m, 1, Strlen(m))

\* strndup(s, n): at most n bytes of the string at s, then a terminator
Strndup(m, n) == SubSeq(m, 1, Min(Strlen(m), n)) \o <<NUL>>

\* strcmp(a, b) == 0
StrcmpEq(m, lit) == CStr(m) = CStr(lit)

\* strncat(dest, src, n) on the image of dest: append at the first NUL of
\* dest at most n bytes of the string at src, then a terminator
StrncatFits(dest, src, n) ==
    HasNul(dest) /\ Strlen(dest) + Min(Strlen(src), n) + 1 <= Len(dest)

Strncat(dest, src, n) ==
    LET p == Strlen(dest)
        k == Min(Strlen(src), n)
    IN SubSeq(dest, 1, p) \o SubSeq(src, 1, k) \o <<NUL>>
         \o SubSeq(dest, p + k + 2, Len(dest))

---------------------------------------------------------------------------
(* State                                                                   *)

VARIABLES
    IS_FIRST,    \* static int IS_FIRST
    req,         \* req[c]: the fields of the caller's req_t number c
    heap,        \* heap[p]: the object pointer p names (kind, live, data)
    handle,      \* handle[c]: the CURL* the caller holds for context c
    st,          \* st[c]: "uninit" | "open" | "failed" | "closed"
    pc,          \* "idle" | "perform" (inside curl_easy_perform)
    cur,         \* locals of the request function that is being executed
    ret,         \* the last value returned to the caller or to the engine
    fault,       \* "none", or the undefined behaviour the program ran into
    body_in,     \* body_in[c]: the chunks delivered since init, in order
    lines_in,    \* lines_in[c]: the header lines delivered since init
    oom,         \* oom[c]: an allocation has failed in a call on context c
    enc          \* the last call of requests_url_encode: arguments and result

vars == <<IS_FIRST, req, heap, handle, st, pc, cur, ret, fault,
          body_in, lines_in, oom, enc>>

Obj(k, d) == [kind |-> k, live |-> TRUE, data |-> d]
Valid(h, p) == p \in 1..Len(h) /\ h[p].live
Free(h, p) == [h EXCEPT ![p].live = FALSE, ![p].data = <<>>]

\* cur: the arguments and locals of the request function in progress (or of
\* the last one that returned), with the values code0/ok0 that req->code and
\* req->ok had when it was called, the number cbs of callbacks the engine
\* has made, whether one of them reported failure (abort), whether
\* curl_easy_perform has returned (performed) and with what (prc), the
\* number n of requests made so far, and whether an allocation failed in one
\* of the callbacks of this exchange (cb_oom)
NoCall == [fn |-> "none", c |-> 0, curl |-> NULL, ua |-> NULL, slist |-> NULL,
           data |-> NULL, custom_hdrv |-> NULL, hdrs |-> <<>>, custom_hdrc |-> 0,
           put_flag |-> 0, abort |-> FALSE, code0 |-> 0, ok0 |-> 0, cbs |-> 0,
           performed |-> FALSE, prc |-> 0, n |-> 0, cb_oom |-> FALSE]

Init ==
    /\ IS_FIRST = 1
    /\ req = [c \in Ctx |-> [code |-> INDET, url |-> INDET, size |-> INDET,
                             req_hdrc |-> INDET, resp_hdrc |-> INDET,
                             ok |-> INDET, text |-> INDET,
                             req_hdrv |-> INDET, resp_hdrv |-> INDET]]
    /\ heap = <<>>
    /\ handle = [c \in Ctx |-> NULL]
    /\ st = [c \in Ctx |-> "uninit"]
    /\ pc = "idle"
    /\ cur = NoCall
    /\ ret = [fn |-> "none", val |-> 0]
    /\ fault = "none"
    /\ body_in = [c \in Ctx |-> <<>>]
    /\ lines_in = [c \in Ctx |-> <<>>]
    /\ oom = [c \in Ctx |-> FALSE]
    /\ enc = [state |-> "none", data |-> <<>>, data_size |-> 0,
              plain |-> <<>>, out |-> <<>>, total_size |-> 0, written |-> 0]

---------------------------------------------------------------------------
(* requests_close                                                          *)

\* free() on each pointer of ptrs in turn; free(NULL) does nothing, free of
\* anything that is not a live object is undefined
RECURSIVE FreeList(_, _)
FreeList(h, ptrs) ==
    IF ptrs = <<>> THEN [heap |-> h, fault |-> "none"]
    ELSE LET p == Head(ptrs)
         IN IF p = NULL THEN FreeList(h, Tail(ptrs))
            ELSE IF Valid(h, p) THEN FreeList(Free(h, p), Tail(ptrs))
            ELSE [heap |-> h, fault |-> "invalid_free"]

\* the slots v[0..n-1] a loop "for (i = 0; i < n; i++) free(v[i])" reads
SlotsReadable(h, v, n) ==
    n # INDET /\ (n > 0 => Valid(h, v) /\ n <= Len(h[v].data))

Slots(h, v, n) == IF n > 0 THEN SubSeq(h[v].data, 1, n) ELSE <<>>

\* requests_close without the loop over req_hdrv (lines 78-79)
CloseEffect_no_req_hdrv(r, h) ==
    IF ~SlotsReadable(h, r.resp_hdrv, r.resp_hdrc)
    THEN [heap |-> h, fault |-> "invalid_read"]
    ELSE LET a == FreeList(h, Slots(h, r.resp_hdrv, r.resp_hdrc))
         IN IF a.fault # "none" THEN a
            ELSE FreeList(a.heap, <<r.text, r.resp_hdrv, r.req_hdrv>>)

CloseEffect(r, h) ==
    IF ~SlotsReadable(h, r.resp_hdrv, r.resp_hdrc)
    THEN [heap |-> h, fault |-> "invalid_read"]
    ELSE LET a == FreeList(h, Slots(h, r.resp_hdrv, r.resp_hdrc))
         IN IF a.fault # "none" THEN a
            ELSE IF ~SlotsReadable(a.heap, r.req_hdrv, r.req_hdrc)
            THEN [heap |-> a.heap, fault |-> "invalid_read"]
            ELSE LET b == FreeList(a.heap, Slots(a.heap, r.req_hdrv, r.req_hdrc))
                 IN IF b.fault # "none" THEN b
                    ELSE FreeList(b.heap, <<r.text, r.resp_hdrv, r.req_hdrv>>)

requests_close(c) ==
    /\ pc = "idle" /\ fault = "none"
    /\ st[c] = "open"
    /\ LET e == CloseEffect(req[c], heap)
       IN /\ heap' = e.heap
          /\ fault' = e.fault
          /\ IS_FIRST' = IF e.fault = "none" THEN 1 ELSE IS_FIRST
          /\ st' = IF e.fault = "none" THEN [st EXCEPT ![c] = "closed"] ELSE st
          /\ ret' = [fn |-> "requests_close", val |-> 0]
    /\ UNCHANGED <<req, handle, pc, cur, body_in, lines_in, oom, enc>>

---------------------------------------------------------------------------
(* requests_init                                                           *)

NewEasy == [httpheader |-> NULL, postfields |-> NULL, useragent |-> NULL,
            method |-> "GET", sink |-> 0]

\* requests_init without the assignment req->size = 0 (line 47)
requests_init_keeps_size(c, F) ==
    /\ pc = "idle" /\ fault = "none"
    /\ LET cl == IF IS_FIRST = 0 THEN CloseEffect(req[c], heap)
                 ELSE [heap |-> heap, fault |-> "none"]
       IN IF cl.fault # "none"
          THEN /\ fault' = cl.fault
               /\ heap' = cl.heap
               /\ UNCHANGED <<IS_FIRST, req, handle, st, ret, body_in, lines_in, oom>>
          ELSE LET r0 == [req[c] EXCEPT !.code = 0, !.url = NULL,
                                        !.req_hdrc = 0, !.resp_hdrc = 0,
                                        !.ok = OK_UNSET]
                   t_ok == 1 \notin F
                   h1 == IF t_ok THEN Append(cl.heap, Obj("text", <<NUL>>)) ELSE cl.heap
                   r1 == [r0 EXCEPT !.text = IF t_ok THEN Len(h1) ELSE NULL]
                   q_ok == t_ok /\ 2 \notin F
                   h2 == IF q_ok THEN Append(h1, Obj("hdrv", <<>>)) ELSE h1
                   r2 == IF t_ok
                         THEN [r1 EXCEPT !.req_hdrv = IF q_ok THEN Len(h2) ELSE NULL]
                         ELSE r1
                   s_ok == q_ok /\ 3 \notin F
                   h3 == IF s_ok THEN Append(h2, Obj("hdrv", <<>>)) ELSE h2
                   r3 == IF q_ok
                         THEN [r2 EXCEPT !.resp_hdrv = IF s_ok THEN Len(h3) ELSE NULL]
                         ELSE r2
                   e_ok == s_ok /\ 4 \notin F
                   h4 == IF e_ok THEN Append(h3, Obj("curl", NewEasy)) ELSE h3
                   curl == IF e_ok THEN Len(h4) ELSE NULL
               IN /\ req' = [req EXCEPT ![c] = r3]
                  /\ heap' = h4
                  /\ IS_FIRST' = IF s_ok THEN 0 ELSE 1
                  /\ handle' = [handle EXCEPT ![c] = curl]
                  /\ st' = [st EXCEPT ![c] = IF curl # NULL THEN "open" ELSE "failed"]
                  /\ ret' = [fn |-> "requests_init", val |-> curl]
                  /\ body_in' = [body_in EXCEPT ![c] = <<>>]
                  /\ lines_in' = [lines_in EXCEPT ![c] = <<>>]
                  /\ oom' = [oom EXCEPT ![c] = @ \/ ~e_ok]
                  /\ fault' = "none"
    /\ UNCHANGED <<pc, cur, enc>>

\* F: the allocations of this call that fail (1 text, 2 req_hdrv,
\* 3 resp_hdrv, 4 curl_easy_init)
requests_init(c, F) ==
    /\ pc = "idle" /\ fault = "none"
    /\ LET cl == IF IS_FIRST = 0 THEN CloseEffect(req[c], heap)
                 ELSE [heap |-> heap, fault |-> "none"]
       IN IF cl.fault # "none"
          THEN /\ fault' = cl.fault
               /\ heap' = cl.heap
               /\ UNCHANGED <<IS_FIRST, req, handle, st, ret, body_in, lines_in, oom>>
          ELSE LET r0 == [req[c] EXCEPT !.code = 0, !.url = NULL, !.size = 0,
                                        !.req_hdrc = 0, !.resp_hdrc = 0,
                                        !.ok = OK_UNSET]
                   t_ok == 1 \notin F
                   h1 == IF t_ok THEN Append(cl.heap, Obj("text", <<NUL>>)) ELSE cl.heap
                   r1 == [r0 EXCEPT !.text = IF t_ok THEN Len(h1) ELSE NULL]
                   q_ok == t_ok /\ 2 \notin F
                   h2 == IF q_ok THEN Append(h1, Obj("hdrv", <<>>)) ELSE h1
                   r2 == IF t_ok
                         THEN [r1 EXCEPT !.req_hdrv = IF q_ok THEN Len(h2) ELSE NULL]
                         ELSE r1
                   s_ok == q_ok /\ 3 \notin F
                   h3 == IF s_ok THEN Append(h2, Obj("hdrv", <<>>)) ELSE h2
                   r3 == IF q_ok
                         THEN [r2 EXCEPT !.resp_hdrv = IF s_ok THEN Len(h3) ELSE NULL]
                         ELSE r2
                   e_ok == s_ok /\ 4 \notin F
                   h4 == IF e_ok THEN Append(h3, Obj("curl", NewEasy)) ELSE h3
                   curl == IF e_ok THEN Len(h4) ELSE NULL
               IN /\ req' = [req EXCEPT ![c] = r3]
                  /\ heap' = h4
                  /\ IS_FIRST' = IF s_ok THEN 0 ELSE 1
                  /\ handle' = [handle EXCEPT ![c] = curl]
                  /\ st' = [st EXCEPT ![c] = IF curl # NULL THEN "open" ELSE "failed"]
                  /\ ret' = [fn |-> "requests_init", val |-> curl]
                  /\ body_in' = [body_in EXCEPT ![c] = <<>>]
                  /\ lines_in' = [lines_in EXCEPT ![c] = <<>>]
                  /\ oom' = [oom EXCEPT ![c] = @ \/ ~e_ok]
                  /\ fault' = "none"
    /\ UNCHANGED <<pc, cur, enc>>

---------------------------------------------------------------------------
(* check_ok, user_agent, common_opt                                        *)

check_ok(r) ==
    IF r.code >= 400 \/ r.code = 0 THEN [r EXCEPT !.ok = 0] ELSE [r EXCEPT !.ok = 1]

\* user_agent(): the heap after malloc(ua_size); fails when ua_fail
user_agent(h, ua_fail) == IF ua_fail THEN h ELSE Append(h, Obj("ua", <<>>))

\* common_opt(curl, req): both sinks write into context c
common_opt(easy, c) == [easy EXCEPT !.sink = c]

---------------------------------------------------------------------------
(* resp_callback                                                           *)

Byte == {NUL, 97}            \* what an indeterminate byte may turn out to be
JunkPtr == {NULL, INDET}

\* content: the bytes at `content' that the callback can read, which are the
\* chunk (size * nmemb bytes) and the byte after it.  F: the allocations
\* that fail (1 realloc, 2 strndup).
resp_callback(c, content, size, nmemb, F) ==
    /\ pc = "perform" /\ fault = "none" /\ cur.c = c /\ ~cur.abort
    /\ Len(content) = size * nmemb + 1
    /\ LET real_size == size * nmemb
           r == req[c]
           old == IF r.text = NULL THEN <<>> ELSE heap[r.text].data
           newlen == r.size + real_size + 1
           kept == SubSeq(old, 1, Min(Len(old), newlen))
           chunk == SubSeq(content, 1, real_size)
           called == [cur EXCEPT !.cbs = @ + 1]
       IN /\ body_in' = [body_in EXCEPT ![c] = Append(@, chunk)]
          /\ IF 1 \in F
             THEN \* realloc failed: text := NULL, return -1
                  /\ req' = [req EXCEPT ![c].text = NULL]
                  /\ heap' = heap
                  /\ ret' = [fn |-> "resp_callback", val |-> 0 - 1]
                  /\ cur' = [called EXCEPT !.abort = TRUE, !.cb_oom = TRUE]
                  /\ oom' = [oom EXCEPT ![c] = TRUE]
                  /\ fault' = "none"
             ELSE \E junk \in SeqsOfLen(Byte, newlen - Len(kept)) :
                  LET h0 == IF r.text = NULL THEN heap ELSE Free(heap, r.text)
                      buf == kept \o junk
                      text == Len(h0) + 1
                      r1 == [r EXCEPT !.text = text, !.size = @ + real_size]
                      responsetext == Strndup(content, real_size + 1)
                  IN IF 2 \in F
                     THEN \* strndup failed: return -1
                          /\ req' = [req EXCEPT ![c] = r1]
                          /\ heap' = Append(h0, Obj("text", buf))
                          /\ ret' = [fn |-> "resp_callback", val |-> 0 - 1]
                          /\ cur' = [called EXCEPT !.abort = TRUE, !.cb_oom = TRUE]
                          /\ oom' = [oom EXCEPT ![c] = TRUE]
                          /\ fault' = "none"
                     ELSE IF ~StrncatFits(buf, responsetext, real_size)
                     THEN /\ req' = [req EXCEPT ![c] = r1]
                          /\ heap' = Append(h0, Obj("text", buf))
                          /\ fault' = "strncat_out_of_bounds"
                          /\ UNCHANGED <<ret, oom>>
                          /\ cur' = called
                     ELSE /\ req' = [req EXCEPT ![c] = r1]
                          /\ heap' = Append(h0, Obj("text",
                                            Strncat(buf, responsetext, real_size)))
                          /\ ret' = [fn |-> "resp_callback", val |-> real_size]
                          /\ cur' = called
                          /\ fault' = "none"
                          /\ UNCHANGED oom
    /\ UNCHANGED <<IS_FIRST, handle, st, pc, lines_in, enc>>

---------------------------------------------------------------------------
(* header_callback                                                         *)

CRLF == <<CR, LF, NUL>>      \* the literal "\r\n"

Max(a, b) == IF a > b THEN a ELSE b

\* content: the bytes at `content' that the callback can read: the line
\* (size * nmemb bytes) and what follows it, as far as strcmp and strndup
\* look.  F: the allocations that fail (1 realloc, 2 strndup).
header_callback(c, content, size, nmemb, F) ==
    /\ pc = "perform" /\ fault = "none" /\ cur.c = c /\ ~cur.abort
    /\ Len(content) = size * nmemb + Max(1, 3 - size * nmemb)
    /\ LET real_size == size * nmemb
           r == req[c]
           line == SubSeq(content, 1, real_size)
           old == IF r.resp_hdrv = NULL THEN <<>> ELSE heap[r.resp_hdrv].data
           newlen == r.resp_hdrc + 1
           kept == SubSeq(old, 1, Min(Len(old), newlen))
           called == [cur EXCEPT !.cbs = @ + 1]
       IN /\ lines_in' = [lines_in EXCEPT ![c] =
                             IF line = <<CR, LF>> THEN @ ELSE Append(@, line)]
          /\ IF StrcmpEq(content, CRLF)
             THEN /\ ret' = [fn |-> "header_callback", val |-> real_size]
                  /\ cur' = called
                  /\ UNCHANGED <<req, heap, oom, fault>>
             ELSE IF 1 \in F
             THEN \* realloc failed: resp_hdrv := NULL, return -1
                  /\ req' = [req EXCEPT ![c].resp_hdrv = NULL]
                  /\ ret' = [fn |-> "header_callback", val |-> 0 - 1]
                  /\ cur' = [called EXCEPT !.abort = TRUE, !.cb_oom = TRUE]
                  /\ oom' = [oom EXCEPT ![c] = TRUE]
                  /\ UNCHANGED <<heap, fault>>
             ELSE \E junk \in SeqsOfLen(JunkPtr, newlen - Len(kept)) :
                  LET h0 == IF r.resp_hdrv = NULL THEN heap
                            ELSE Free(heap, r.resp_hdrv)
                      arr == Len(h0) + 1
                      dup_ok == 2 \notin F
                      str == IF dup_ok THEN arr + 1 ELSE NULL
                      slots == [kept \o junk EXCEPT ![newlen] = str]
                      h1 == Append(h0, Obj("hdrv", slots))
                      h2 == IF dup_ok
                            THEN Append(h1, Obj("str", Strndup(content, real_size + 1)))
                            ELSE h1
                  IN /\ req' = [req EXCEPT ![c].resp_hdrv = arr,
                                           ![c].resp_hdrc = newlen]
                     /\ heap' = h2
                     /\ ret' = [fn |-> "header_callback", val |-> real_size]
                     /\ cur' = [called EXCEPT !.cb_oom = @ \/ ~dup_ok]
                     /\ oom' = [oom EXCEPT ![c] = @ \/ ~dup_ok]
                     /\ fault' = "none"
    /\ UNCHANGED <<IS_FIRST, handle, st, pc, body_in, enc>>

---------------------------------------------------------------------------
(* requests_get                                                            *)

\* lines 153-164, up to the point where curl_easy_perform blocks.
\* F: the allocations that fail (1 the malloc of user_agent)
requests_get_call(c, url, F) ==
    /\ pc = "idle" /\ fault = "none"
    /\ st[c] = "open" /\ Valid(heap, handle[c])
    /\ LET curl == handle[c]
           h1 == user_agent(heap, 1 \in F)
           ua == IF 1 \in F THEN NULL ELSE Len(h1)
       IN /\ heap' = [h1 EXCEPT ![curl].data =
                         [common_opt(@, c) EXCEPT !.useragent = ua]]
          /\ req' = [req EXCEPT ![c].url = url]
          /\ cur' = [NoCall EXCEPT !.fn = "requests_get", !.c = c, !.curl = curl,
                                   !.ua = ua, !.code0 = req[c].code,
                                   !.ok0 = req[c].ok, !.n = cur.n + 1]
    /\ pc' = "perform"
    /\ UNCHANGED <<IS_FIRST, handle, st, ret, fault, body_in, lines_in, oom, enc>>

\* requests_get without the curl_easy_cleanup of line 170
requests_get_return_no_cleanup(rc, code) ==
    /\ pc = "perform" /\ fault = "none" /\ cur.fn = "requests_get"
    /\ cur.abort <=> rc = CURLE_WRITE_ERROR
    /\ pc' = "idle"
    /\ cur' = [cur EXCEPT !.performed = TRUE, !.prc = rc]
    /\ ret' = [fn |-> "requests_get", val |-> rc]
    /\ IF rc # CURLE_OK
       THEN UNCHANGED <<req, heap, fault>>
       ELSE LET fr == FreeList(heap, <<cur.ua>>)
            IN /\ req' = [req EXCEPT ![cur.c] = check_ok([@ EXCEPT !.code = code])]
               /\ heap' = fr.heap
               /\ fault' = fr.fault
    /\ UNCHANGED <<IS_FIRST, handle, st, body_in, lines_in, oom, enc>>

\* lines 164-175: curl_easy_perform returns rc; code is what
\* CURLINFO_RESPONSE_CODE reports
requests_get_return(rc, code) ==
    /\ pc = "perform" /\ fault = "none" /\ cur.fn = "requests_get"
    /\ cur.abort <=> rc = CURLE_WRITE_ERROR
    /\ pc' = "idle"
    /\ cur' = [cur EXCEPT !.performed = TRUE, !.prc = rc]
    /\ ret' = [fn |-> "requests_get", val |-> rc]
    /\ IF rc # CURLE_OK
       THEN UNCHANGED <<req, heap, fault>>
       ELSE LET fr == FreeList(Free(heap, cur.curl), <<cur.ua>>)
            IN /\ req' = [req EXCEPT ![cur.c] = check_ok([@ EXCEPT !.code = code])]
               /\ heap' = fr.heap
               /\ fault' = fr.fault
    /\ UNCHANGED <<IS_FIRST, handle, st, body_in, lines_in, oom, enc>>

---------------------------------------------------------------------------
(* requests_pt (requests_post, requests_put and the _headers variants)     *)

ContentLength0 ==
    <<67, 111, 110, 116, 101, 110, 116, 45, 76, 101, 110, 103, 116, 104,
      58, 32, 48, NUL>>       \* "Content-Length: 0"

\* curl_slist_append(list, s): NULL when it fails, else the list with a
\* copy of the string s at its end
SlistAppend(s, str, fails) ==
    IF fails THEN [s EXCEPT !.slist = NULL, !.oom = TRUE]
    ELSE IF s.slist = NULL
    THEN [s EXCEPT !.heap = Append(@, Obj("slist", <<CStr(str) \o <<NUL>>>>)),
                   !.slist = Len(s.heap) + 1]
    ELSE [s EXCEPT !.heap = [@ EXCEPT ![s.slist].data = Append(@, CStr(str) \o <<NUL>>)]]

\* allocation sites of requests_pt: 1 user_agent, 2 the append of
\* "Content-Length: 0", and for the custom header number i (from 1)
\* 3i the append, 3i+1 the realloc, 3i+2 the strndup
\* the loop of lines 298-306 from custom header i on; s.early is the return
\* of line 303
RECURSIVE PtHeaders(_, _, _, _, _, _)
PtHeaders(s, hdrs, i, n, junk, F) ==
    IF i > n \/ s.early THEN s
    ELSE LET a == SlistAppend(s, hdrs[i], (3 * i) \in F)
             r == a.r
             old == IF r.req_hdrv = NULL THEN <<>> ELSE a.heap[r.req_hdrv].data
             newlen == r.req_hdrc + 1
             kept == SubSeq(old, 1, Min(Len(old), newlen))
             fresh == [k \in 1..(newlen - Len(kept)) |->
                          IF Len(kept) + k <= Len(junk) THEN junk[Len(kept) + k]
                          ELSE INDET]
         IN IF (3 * i + 1) \in F
            THEN [a EXCEPT !.r = [r EXCEPT !.req_hdrv = NULL],
                           !.early = TRUE, !.oom = TRUE]
            ELSE LET h0 == IF r.req_hdrv = NULL THEN a.heap ELSE Free(a.heap, r.req_hdrv)
                     arr == Len(h0) + 1
                     dup_ok == (3 * i + 2) \notin F
                     str == IF dup_ok THEN arr + 1 ELSE NULL
                     slots == [kept \o fresh EXCEPT ![newlen] = str]
                     h1 == Append(h0, Obj("hdrv", slots))
                     h2 == IF dup_ok
                           THEN Append(h1, Obj("str", Strndup(hdrs[i], Strlen(hdrs[i]))))
                           ELSE h1
                 IN PtHeaders([a EXCEPT !.heap = h2,
                                        !.r = [r EXCEPT !.req_hdrv = arr,
                                                        !.req_hdrc = newlen],
                                        !.oom = @ \/ ~dup_ok],
                              hdrs, i + 1, n, junk, F)

\* the slots of req_hdrv that a realloc of a NULL req_hdrv leaves unwritten
JunkNeed(r) == IF r.req_hdrv = NULL /\ r.req_hdrc > 0 THEN r.req_hdrc ELSE 0

\* lines 273-318, up to the point where curl_easy_perform blocks, or to the
\* return of line 303.  data and custom_hdrv are NULL or a pointer of the
\* caller's; hdrs is the array at custom_hdrv.
requests_pt_call(c, url, data, custom_hdrv, hdrs, custom_hdrc, put_flag, F) ==
    /\ pc = "idle" /\ fault = "none"
    /\ st[c] = "open" /\ Valid(heap, handle[c])
    /\ custom_hdrc <= Len(hdrs)
    /\ \E junk \in SeqsOfLen(JunkPtr, JunkNeed(req[c])) :
       LET curl == handle[c]
           h1 == user_agent(heap, 1 \in F)
           ua == IF 1 \in F THEN NULL ELSE Len(h1)
           s0 == [heap |-> h1, r |-> [req[c] EXCEPT !.url = url], slist |-> NULL,
                  early |-> FALSE, oom |-> FALSE, easy |-> h1[curl].data]
           \* body data (lines 284-292)
           s1 == IF data # NULL
                 THEN [s0 EXCEPT !.easy = [@ EXCEPT !.postfields = data]]
                 ELSE LET a == SlistAppend(s0, ContentLength0, 2 \in F)
                      IN IF custom_hdrv = NULL
                         THEN [a EXCEPT !.easy = [@ EXCEPT !.httpheader = a.slist]]
                         ELSE a
           \* headers (lines 295-308)
           s2 == IF custom_hdrv # NULL
                 THEN LET b == PtHeaders(s1, hdrs, 1, custom_hdrc, junk, F)
                      IN IF b.early THEN b
                         ELSE [b EXCEPT !.easy = [@ EXCEPT !.httpheader = b.slist]]
                 ELSE s1
           \* lines 310-317
           easy == [common_opt(s2.easy, c) EXCEPT
                       !.method = IF put_flag # 0 THEN "PUT" ELSE "POST",
                       !.useragent = ua]
           call == [NoCall EXCEPT !.fn = "requests_pt", !.c = c, !.curl = curl,
                                  !.ua = ua, !.slist = s2.slist, !.data = data,
                                  !.custom_hdrv = custom_hdrv, !.hdrs = hdrs,
                                  !.custom_hdrc = custom_hdrc, !.put_flag = put_flag,
                                  !.code0 = req[c].code, !.ok0 = req[c].ok,
                                  !.n = cur.n + 1]
       IN /\ req' = [req EXCEPT ![c] = s2.r]
          /\ oom' = [oom EXCEPT ![c] = @ \/ s2.oom]
          /\ IF s2.early
             THEN /\ heap' = [s2.heap EXCEPT ![curl].data = s2.easy]
                  /\ pc' = "idle"
                  /\ cur' = call
                  /\ ret' = [fn |-> "requests_pt", val |-> CURLE_OUT_OF_MEMORY]
             ELSE /\ heap' = [s2.heap EXCEPT ![curl].data = easy]
                  /\ pc' = "perform"
                  /\ cur' = call
                  /\ ret' = ret
    /\ UNCHANGED <<IS_FIRST, handle, st, fault, body_in, lines_in, enc>>

\* requests_pt_return with the status read and the verdict computed before
\* the outcome of the exchange is looked at
requests_pt_return_eager(rc, code) ==
    /\ pc = "perform" /\ fault = "none" /\ cur.fn = "requests_pt"
    /\ cur.abort <=> rc = CURLE_WRITE_ERROR
    /\ pc' = "idle"
    /\ cur' = [cur EXCEPT !.performed = TRUE, !.prc = rc]
    /\ ret' = [fn |-> "requests_pt", val |-> rc]
    /\ req' = [req EXCEPT ![cur.c] = check_ok([@ EXCEPT !.code = code])]
    /\ IF rc # CURLE_OK
       THEN UNCHANGED <<heap, fault>>
       ELSE LET fr == FreeList(heap, <<cur.slist, cur.ua>>)
            IN /\ heap' = IF fr.fault = "none" THEN Free(fr.heap, cur.curl) ELSE fr.heap
               /\ fault' = fr.fault
    /\ UNCHANGED <<IS_FIRST, handle, st, body_in, lines_in, oom, enc>>

\* lines 318-334: curl_easy_perform returns rc; code is what
\* CURLINFO_RESPONSE_CODE reports
requests_pt_return(rc, code) ==
    /\ pc = "perform" /\ fault = "none" /\ cur.fn = "requests_pt"
    /\ cur.abort <=> rc = CURLE_WRITE_ERROR
    /\ pc' = "idle"
    /\ cur' = [cur EXCEPT !.performed = TRUE, !.prc = rc]
    /\ ret' = [fn |-> "requests_pt", val |-> rc]
    /\ IF rc # CURLE_OK
       THEN UNCHANGED <<req, heap, fault>>
       ELSE LET fr == FreeList(heap, <<cur.slist, cur.ua>>)
            IN /\ req' = [req EXCEPT ![cur.c] = check_ok([@ EXCEPT !.code = code])]
               /\ heap' = IF fr.fault = "none" THEN Free(fr.heap, cur.curl) ELSE fr.heap
               /\ fault' = fr.fault
    /\ UNCHANGED <<IS_FIRST, handle, st, body_in, lines_in, oom, enc>>

---------------------------------------------------------------------------
(* requests_url_encode                                                     *)

\* curl_easy_escape: every byte that is not unreserved (a-z A-Z 0-9 - . _ ~)
\* becomes %XX
Unreserved == (97..122) \cup (65..90) \cup (48..57) \cup {45, 46, 95, 126}
Hex(n) == IF n < 10 THEN 48 + n ELSE 55 + n

RECURSIVE curl_easy_escape(_)
curl_easy_escape(str) ==
    IF str = <<>> THEN <<>>
    ELSE (IF Head(str) \in Unreserved THEN <<Head(str)>>
          ELSE <<37, Hex(Head(str) \div 16), Hex(Head(str) % 16)>>)
         \o curl_easy_escape(Tail(str))

\* lines 201-207: the sum of the lengths of data[1..n]
RECURSIVE TotalSize(_, _)
TotalSize(data, n) ==
    IF n = 0 THEN 0 ELSE TotalSize(data, n - 1) + Strlen(data[n])

\* lines 214-222: the term of the pair that starts at data[i] (i from 0 in
\* the code, the pair's key is data[i+1] here)
Term(data, i) ==
    (IF i = 0 THEN <<>> ELSE <<38>>) \o CStr(data[i + 1]) \o <<61>>
        \o CStr(data[i + 2]) \o <<NUL>>

\* lines 213-224 from pair i on, on the bytes at `encoded'; img.ok is FALSE
\* once strncat has run off the bytes the image covers
RECURSIVE EncodeLoop(_, _, _, _)
EncodeLoop(img, data, i, n) ==
    IF i >= n \/ ~img.ok THEN img
    ELSE LET term == Term(data, i)
         IN IF StrncatFits(img.mem, term, Strlen(term))
            THEN EncodeLoop([img EXCEPT !.mem = Strncat(@, term, Strlen(term))],
                            data, i + 2, n)
            ELSE [img EXCEPT !.ok = FALSE]

\* the bytes that the function touches at `encoded': the array
\* encoded[total_size] and the bytes after it that the terms and their
\* terminator reach
Extent(data, n) ==
    IF n = 0 THEN 1 ELSE TotalSize(data, n) + 2 * (n \div 2)

\* data: the array (memory images of strings); esc_fail: curl_easy_escape
\* cannot allocate.  A byte read or written after the end of
\* encoded[total_size] is out of bounds: the build either has slack there
\* (benign) or the program is stopped.
requests_url_encode(data, data_size, benign, esc_fail) ==
    /\ pc = "idle" /\ fault = "none"
    /\ data_size <= Len(data)
    /\ IF data_size % 2 # 0
       THEN /\ enc' = [state |-> "null", data |-> data, data_size |-> data_size,
                       plain |-> <<>>, out |-> <<>>, total_size |-> 0,
                       written |-> 0]
            /\ fault' = fault
       ELSE LET total_size == TotalSize(data, data_size)
                ext == Extent(data, data_size)
            IN \E junk \in SeqsOfLen(Byte, IF total_size = 0 THEN ext ELSE 0) :
               LET \* line 210: snprintf(encoded, total_size, "%s", "")
                   mem0 == IF total_size = 0 THEN junk
                           ELSE [k \in 1..ext |-> IF k = 1 THEN NUL ELSE INDET]
                   img == EncodeLoop([mem |-> mem0, ok |-> TRUE], data, 0, data_size)
                   readable == img.ok /\ HasNul(img.mem)
                   oob == ~readable \/ Strlen(img.mem) + 1 > total_size
                   plain == CStr(img.mem)
                   \* the bytes of `encoded' that lines 210-223 write: none
                   \* when no pair is appended (snprintf with size 0 writes
                   \* nothing), else up to the terminator of the last term
                   written == IF data_size = 0 THEN 0
                              ELSE IF img.ok THEN Strlen(img.mem) + 1
                              ELSE ext + 1
               IN IF oob /\ ~(benign /\ readable)
                  THEN /\ fault' = "encoded_out_of_bounds"
                       /\ enc' = [state |-> "fault", data |-> data,
                                  data_size |-> data_size, plain |-> <<>>,
                                  out |-> <<>>, total_size |-> total_size,
                                  written |-> written]
                  ELSE /\ fault' = fault
                       /\ enc' = [state |-> IF esc_fail THEN "null" ELSE "done",
                                  data |-> data, data_size |-> data_size,
                                  plain |-> plain,
                                  out |-> IF esc_fail THEN <<>>
                                          ELSE curl_easy_escape(plain) \o <<NUL>>,
                                  total_size |-> total_size,
                                  written |-> written]
    /\ UNCHANGED <<IS_FIRST, req, heap, handle, st, pc, cur, ret, body_in,
                   lines_in, oom>>

---------------------------------------------------------------------------
(* Inputs and specifications                                               *)

Urls == {1}
CallerPtr == 1                      \* a non-NULL pointer of the caller's
CURLE_COULDNT_CONNECT == 7
Rcs == {CURLE_OK, CURLE_COULDNT_CONNECT, CURLE_WRITE_ERROR}
StatusCodes == {0 - 1, 0, 200, 399, 400, 404}

\* no allocation fails, or one of the sites 1..n does
Fails(n) == {{}} \cup {{i} : i \in 1..n}

HdrStr == {<<97, NUL>>, <<98, NUL>>}
HdrArrays == SeqsUpTo(HdrStr, MaxHdrs)

\* the requests of the public interface: requests_post/put hand NULL, 0 for
\* the custom headers, the _headers variants hand an array and its length
PlainPt ==
    {[data |-> d, custom_hdrv |-> NULL, hdrs |-> <<>>, put_flag |-> p] :
        d \in {NULL, CallerPtr}, p \in {0, 1}}
HeadersPt ==
    {[data |-> d, custom_hdrv |-> CallerPtr, hdrs |-> h, put_flag |-> p] :
        d \in {NULL, CallerPtr}, h \in HdrArrays, p \in {0, 1}}

HasRoom == Len(heap) < MaxObj
ReqRoom == cur.n < MaxReqs
CbRoom == cur.cbs < MaxCbs

SmallChunks == {<<97, NUL>>}                          \* "a", then a NUL byte
SmallLines == {<<97, CR, LF, NUL>>, <<CR, LF, NUL>>}  \* "a\r\n" and "\r\n"

\* Spec: init, GET, POST and PUT without custom headers on one context,
\* every transport outcome and status code, callbacks that may fail
Next ==
    \/ HasRoom /\ requests_init(1, {})
    \/ \E u \in Urls, F \in Fails(1) : ReqRoom /\ requests_get_call(1, u, F)
    \/ \E rc \in Rcs, code \in StatusCodes : requests_get_return(rc, code)
    \/ \E u \in Urls, a \in PlainPt, F \in Fails(2) :
          ReqRoom /\ requests_pt_call(1, u, a.data, a.custom_hdrv, a.hdrs,
                                      Len(a.hdrs), a.put_flag, F)
    \/ \E rc \in Rcs, code \in StatusCodes : requests_pt_return(rc, code)
    \/ \E m \in SmallChunks, F \in Fails(1) :
          CbRoom /\ resp_callback(1, m, 1, Len(m) - 1, F)
    \/ \E m \in SmallLines, F \in Fails(1) :
          CbRoom /\ header_callback(1, m, 1, Len(m) - 1, F)

Spec == Init /\ [][Next]_vars

---------------------------------------------------------------------------
(* Claims                                                                  *)

Returned(fns) == pc = "idle" /\ ret.fn \in fns
Requests == {"requests_get", "requests_pt"}

\* C3: after every completed exchange (the request returned CURLE_OK) the
\* success flag is ok (1) if and only if 0 < statusCode < 400, and not-ok (0)
\* for every other status code, whatever code the engine reports.
C3_OkIffStatusInRange ==
    (Returned(Requests) /\ ret.val = CURLE_OK) =>
        LET r == req[cur.c]
        IN /\ r.ok = 1 <=> (0 < r.code /\ r.code < 400)
           /\ r.ok = 0 <=> ~(0 < r.code /\ r.code < 400)

\* what check_ok does hold for: the status codes that are not negative
OkIffStatusInRangeNonNegative ==
    (Returned(Requests) /\ ret.val = CURLE_OK /\ req[cur.c].code >= 0) =>
        LET r == req[cur.c]
        IN /\ r.ok = 1 <=> (0 < r.code /\ r.code < 400)
           /\ r.ok = 0 <=> ~(0 < r.code /\ r.code < 400)

\* C4: when curl_easy_perform returns a non-success outcome, requests_get
\* and requests_pt return exactly that outcome and req->code and req->ok
\* are what they were when the request was called.
C4_FailedExchangeKeepsStatus ==
    (Returned(Requests) /\ cur.performed /\ cur.prc # CURLE_OK) =>
        /\ ret.val = cur.prc
        /\ req[cur.c].code = cur.code0
        /\ req[cur.c].ok = cur.ok0

\* requests_pt has returned the outcome of a failed exchange, one during
\* which a callback ran
C4_Witness ==
    /\ Returned({"requests_pt"}) /\ cur.performed
    /\ cur.prc = CURLE_WRITE_ERROR /\ cur.cbs > 0
    /\ ret.val = CURLE_WRITE_ERROR

\* the per-call allocations: the user agent string and the header list
Transient == {p \in 1..Len(heap) : heap[p].live /\ heap[p].kind \in {"ua", "slist"}}

\* C5: whenever requests_pt has returned (success, failed exchange or the
\* out-of-memory return) no per-call allocation is live any more.
C5_TransientsReleased ==
    Returned({"requests_pt"}) => Transient = {}

---------------------------------------------------------------------------
(* POST/PUT with custom headers                                            *)

\* SpecPt: POST and PUT with and without custom headers on one context;
\* every allocation made while the header list is built may fail
NextPt ==
    \/ HasRoom /\ requests_init(1, {})
    \/ \E u \in Urls, a \in PlainPt \cup HeadersPt, F \in Fails(3 * MaxHdrs + 2) :
          ReqRoom /\ requests_pt_call(1, u, a.data, a.custom_hdrv, a.hdrs,
                                      Len(a.hdrs), a.put_flag, F)
    \/ \E rc \in {CURLE_OK, CURLE_COULDNT_CONNECT} : requests_pt_return(rc, 200)

SpecPt == Init /\ [][NextPt]_vars

\* the header list CURLOPT_HTTPHEADER names on the handle of the request
Installed ==
    LET l == heap[cur.curl].data.httpheader
    IN IF l = NULL THEN <<>> ELSE heap[l].data

\* C6: whenever a POST/PUT without a body is being performed, the header
\* list installed on the engine is "Content-Length: 0" followed by the
\* caller's custom headers in the order supplied.
C6_NoBodyHeaderList ==
    (pc = "perform" /\ cur.fn = "requests_pt" /\ cur.data = NULL) =>
        Installed = <<ContentLength0>> \o cur.hdrs

\* the same, for the calls in which no allocation failed
NoBodyHeaderListNoFailure ==
    (pc = "perform" /\ cur.fn = "requests_pt" /\ cur.data = NULL /\ ~oom[cur.c]) =>
        Installed = <<ContentLength0>> \o cur.hdrs

\* the strings req_hdrv[0..req_hdrc-1] of context c name
RequestHeaders(c) ==
    [i \in 1..req[c].req_hdrc |-> heap[req[c].req_hdrv].data[i]]

\* C7: after a POST/PUT with k custom headers on a freshly initialised
\* context that went on to the exchange, req_hdrv holds exactly k entries,
\* none NULL, each a live string equal to the custom header of the same
\* position, during the exchange and after the live list was released.
C7_RequestHeadersRecorded ==
    (cur.fn = "requests_pt" /\ cur.custom_hdrv # NULL /\ cur.n = 1
        /\ (pc = "perform" \/ (Returned({"requests_pt"}) /\ cur.performed))) =>
        LET c == cur.c
        IN /\ req[c].req_hdrc = cur.custom_hdrc
           /\ Valid(heap, req[c].req_hdrv)
           /\ Len(heap[req[c].req_hdrv].data) = cur.custom_hdrc
           /\ \A i \in 1..cur.custom_hdrc :
                 LET p == heap[req[c].req_hdrv].data[i]
                 IN /\ p # NULL
                    /\ Valid(heap, p)
                    /\ heap[p].data = cur.hdrs[i]

\* the same, for the calls in which no allocation failed
RequestHeadersRecordedNoFailure ==
    (cur.fn = "requests_pt" /\ cur.custom_hdrv # NULL /\ cur.n = 1
        /\ (pc = "perform" \/ (Returned({"requests_pt"}) /\ cur.performed))
        /\ ~oom[cur.c]) =>
        LET c == cur.c
        IN /\ req[c].req_hdrc = cur.custom_hdrc
           /\ Valid(heap, req[c].req_hdrv)
           /\ Len(heap[req[c].req_hdrv].data) = cur.custom_hdrc
           /\ \A i \in 1..cur.custom_hdrc :
                 LET p == heap[req[c].req_hdrv].data[i]
                 IN /\ p # NULL
                    /\ Valid(heap, p)
                    /\ heap[p].data = cur.hdrs[i]

---------------------------------------------------------------------------
(* Memory: allocation failures in the callbacks, and close                 *)

DeliveryRoom == cur.cbs < MaxDeliveries

\* SpecMem: GET and a POST with one custom header on one context, callbacks
\* in which the realloc or the strndup may fail, and close
NextMem ==
    \/ HasRoom /\ requests_init(1, {})
    \/ requests_close(1)
    \/ \E u \in Urls : ReqRoom /\ requests_get_call(1, u, {})
    \/ \E rc \in Rcs : requests_get_return(rc, 200)
    \/ \E u \in Urls, F \in {{}, {4}} :
          ReqRoom /\ requests_pt_call(1, u, CallerPtr, CallerPtr, <<<<97, NUL>>>>,
                                      1, 0, F)
    \/ \E rc \in Rcs : requests_pt_return(rc, 200)
    \/ \E m \in SmallChunks, F \in Fails(2) :
          DeliveryRoom /\ resp_callback(1, m, 1, Len(m) - 1, F)
    \/ \E m \in SmallLines, F \in Fails(2) :
          DeliveryRoom /\ header_callback(1, m, 1, Len(m) - 1, F)

SpecMem == Init /\ [][NextMem]_vars

\* C8: between a successful init and the matching close, whatever the
\* callbacks and requests in between and whichever allocation failed,
\* req->text, req->req_hdrv and req->resp_hdrv are not NULL.
C8_BuffersNonNull ==
    \A c \in Ctx : st[c] = "open" =>
        /\ req[c].text # NULL
        /\ req[c].req_hdrv # NULL
        /\ req[c].resp_hdrv # NULL

\* the same, as long as no allocation has failed
BuffersNonNullNoFailure ==
    \A c \in Ctx : (st[c] = "open" /\ ~oom[c]) =>
        /\ Valid(heap, req[c].text)
        /\ Valid(heap, req[c].req_hdrv)
        /\ Valid(heap, req[c].resp_hdrv)

\* what the context owns: its buffers and the strings of its header arrays
SlotSet(v, n) ==
    IF Valid(heap, v) THEN {heap[v].data[i] : i \in 1..Min(n, Len(heap[v].data))}
    ELSE {}

Reach(c) ==
    {req[c].text, req[c].req_hdrv, req[c].resp_hdrv}
        \cup SlotSet(req[c].resp_hdrv, req[c].resp_hdrc)
        \cup SlotSet(req[c].req_hdrv, req[c].req_hdrc)

OwnedLive ==
    {p \in 1..Len(heap) : heap[p].live /\ heap[p].kind \in {"text", "hdrv", "str"}}

Leaked == {p \in OwnedLive : \A c \in Ctx : st[c] = "open" => p \notin Reach(c)}

\* the header array v holds exactly n live strings
CountsMatch(v, n) ==
    /\ Valid(heap, v)
    /\ Len(heap[v].data) = n
    /\ \A i \in 1..n : Valid(heap, heap[v].data[i])

\* C9: once an allocation has failed in resp_callback or header_callback,
\* a callback has reported failure, nothing the context stored is leaked,
\* the header counts still match the stored strings, and close releases all
\* of it without reading or freeing an invalid pointer.
C9_AllocFailureKeepsContext ==
    cur.cb_oom =>
        /\ cur.abort
        /\ fault = "none"
        /\ st[cur.c] = "open" =>
              /\ Leaked = {}
              /\ Valid(heap, req[cur.c].text)
              /\ CountsMatch(req[cur.c].resp_hdrv, req[cur.c].resp_hdrc)
              /\ CountsMatch(req[cur.c].req_hdrv, req[cur.c].req_hdrc)
        /\ st[cur.c] = "closed" => OwnedLive = {}

\* the same properties of the context, as long as no allocation has failed
ContextIntactNoFailure ==
    (\A c \in Ctx : ~oom[c]) =>
        /\ fault = "none"
        /\ \A c \in Ctx :
              /\ st[c] = "open" =>
                    /\ Leaked = {}
                    /\ Valid(heap, req[c].text)
                    /\ CountsMatch(req[c].resp_hdrv, req[c].resp_hdrc)
                    /\ CountsMatch(req[c].req_hdrv, req[c].req_hdrc)
              /\ st[c] = "closed" => OwnedLive = {}

---------------------------------------------------------------------------
(* The body accumulator                                                    *)

BodyBytes == {NUL, 97, 98}

\* what resp_callback can read at `content': a chunk of 0..MaxChunk bytes
\* and the byte after it
Contents == SeqsUpTo(BodyBytes, MaxChunk + 1) \ {<<>>}

\* SpecBody: one context, GETs in which the engine delivers chunks of every
\* content; the realloc or the strndup of a delivery may fail
NextBody ==
    \/ HasRoom /\ requests_init(1, {})
    \/ \E u \in Urls : ReqRoom /\ requests_get_call(1, u, {})
    \/ \E rc \in Rcs : requests_get_return(rc, 200)
    \/ \E m \in Contents, F \in Fails(2) :
          DeliveryRoom /\ resp_callback(1, m, 1, Len(m) - 1, F)

SpecBody == Init /\ [][NextBody]_vars

\* the first req->size bytes of req->text
Body(c) == SubSeq(heap[req[c].text].data, 1, req[c].size)

\* C1: on an initialised context on which no allocation has failed, the
\* first req->size bytes of req->text are the concatenation of the chunks
\* delivered since init, in delivery order, whatever the chunks hold.
C1_BodyIsConcatenation ==
    \A c \in Ctx : (st[c] = "open" /\ ~oom[c]) =>
        /\ Valid(heap, req[c].text)
        /\ req[c].size < Len(heap[req[c].text].data)
        /\ Body(c) = Concat(body_in[c])

\* what the accumulator does hold: req->text is the string made of the
\* chunks, each cut at its first NUL byte, and is terminated
NoNul(m) == \A i \in 1..Len(m) : m[i] # NUL
BodyIsConcatenationOfStrings ==
    \A c \in Ctx : (st[c] = "open" /\ ~oom[c]) =>
        /\ Valid(heap, req[c].text)
        /\ Len(heap[req[c].text].data) = req[c].size + 1
        /\ CStr(heap[req[c].text].data)
              = Concat([i \in 1..Len(body_in[c]) |-> CStr(body_in[c][i] \o <<NUL>>)])
        /\ (\A i \in 1..Len(body_in[c]) : NoNul(body_in[c][i])) =>
              Body(c) = Concat(body_in[c])

---------------------------------------------------------------------------
(* The header collector                                                    *)

HdrBytes == {NUL, CR, LF, 97}

\* what header_callback can read at `content': a line of 1..MaxChunk bytes
\* and the bytes after it that strcmp and strndup reach
LineImages ==
    UNION {SeqsOfLen(HdrBytes, n + Max(1, 3 - n)) : n \in 1..MaxChunk}

\* SpecHdr: one context, GETs in which the engine delivers header lines of
\* every content, followed in memory by every content
NextHdr ==
    \/ HasRoom /\ requests_init(1, {})
    \/ \E u \in Urls : ReqRoom /\ requests_get_call(1, u, {})
    \/ \E rc \in Rcs : requests_get_return(rc, 200)
    \/ \E m \in LineImages, nmemb \in 1..MaxChunk :
          DeliveryRoom /\ header_callback(1, m, 1, nmemb, {})

SpecHdr == Init /\ [][NextHdr]_vars

\* C2: on an initialised context, the line CR LF is never stored and
\* resp_hdrv holds one entry for each other line delivered, in arrival
\* order, each the bytes of its line followed by a terminator.
C2_HeadersAreLines ==
    \A c \in Ctx : (st[c] = "open" /\ ~oom[c]) =>
        /\ req[c].resp_hdrc = Len(lines_in[c])
        /\ CountsMatch(req[c].resp_hdrv, Len(lines_in[c]))
        /\ \A i \in 1..Len(lines_in[c]) :
              heap[heap[req[c].resp_hdrv].data[i]].data = lines_in[c][i] \o <<NUL>>

---------------------------------------------------------------------------
(* The key/value encoder                                                   *)

EncStr == {<<NUL>>, <<97, NUL>>, <<61, NUL>>}       \* "", "a", "="
EncArrays == SeqsUpTo(EncStr, 2 * MaxPairs)

\* SpecEnc: one call of requests_url_encode, on every array and count
NextEnc ==
    \E data \in EncArrays, data_size \in 0..(2 * MaxPairs), benign \in BOOLEAN,
       esc_fail \in BOOLEAN :
        enc.state = "none" /\ requests_url_encode(data, data_size, benign, esc_fail)

SpecEnc == Init /\ [][NextEnc]_vars

\* key1=value1&key2=value2&... of the first n strings of data
RECURSIVE Join(_, _)
Join(data, n) ==
    IF n < 2 THEN <<>>
    ELSE Join(data, n - 2) \o (IF n > 2 THEN <<38>> ELSE <<>>)
            \o CStr(data[n - 1]) \o <<61>> \o CStr(data[n])

\* C10: requests_url_encode returns NULL when data_size is odd; when it is
\* even, the string handed to curl_easy_escape is key1=value1&key2=value2...
\* in input order and what curl_easy_escape returns is returned.
C10_EncodeJoinsPairs ==
    enc.state # "none" =>
        IF enc.data_size % 2 # 0 THEN enc.state = "null"
        ELSE /\ enc.state \in {"done", "null"}
             /\ enc.plain = Join(enc.data, enc.data_size)
             /\ enc.state = "done" =>
                   enc.out = curl_easy_escape(Join(enc.data, enc.data_size)) \o <<NUL>>

\* the same, for the calls that the out-of-bounds accesses did not stop
EncodeJoinsPairsUnlessStopped ==
    (enc.state # "none" /\ fault = "none") =>
        IF enc.data_size % 2 # 0 THEN enc.state = "null"
        ELSE /\ enc.state \in {"done", "null"}
             /\ enc.plain = Join(enc.data, enc.data_size)
             /\ enc.state = "done" =>
                   enc.out = curl_easy_escape(Join(enc.data, enc.data_size)) \o <<NUL>>

\* C11: for every even count the bytes written into encoded[total_size]
\* (keys, values, one '=' per pair, one '&' between pairs, the terminator)
\* are no more than total_size, the size the array was declared with.
C11_EncodedNeverOverflows ==
    (enc.state # "none" /\ enc.data_size % 2 = 0) =>
        enc.written <= enc.total_size

\* what does hold: nothing is written when the count is 0, and a call with
\* k > 0 pairs whose strings are not all empty writes total_size + 2k bytes
EncodedOverflowsByTwoPerPair ==
    (enc.state # "none" /\ enc.data_size % 2 = 0) =>
        /\ enc.data_size = 0 => enc.written = 0
        /\ (enc.data_size > 0 /\ enc.total_size > 0) =>
              enc.written = enc.total_size + enc.data_size

---------------------------------------------------------------------------
(* Two contexts: the process-wide flag                                     *)

\* a req_t that requests_init has never been called on is whatever the
\* caller's storage holds: indeterminate (automatic storage) or all zero
\* (static storage)
Untouched ==
    {[code |-> v, url |-> v, size |-> v, req_hdrc |-> v, resp_hdrc |-> v,
      ok |-> v, text |-> v, req_hdrv |-> v, resp_hdrv |-> v] : v \in {INDET, 0}}

InitAny ==
    /\ IS_FIRST = 1
    /\ req \in [Ctx -> Untouched]
    /\ heap = <<>>
    /\ handle = [c \in Ctx |-> NULL]
    /\ st = [c \in Ctx |-> "uninit"]
    /\ pc = "idle"
    /\ cur = NoCall
    /\ ret = [fn |-> "none", val |-> 0]
    /\ fault = "none"
    /\ body_in = [c \in Ctx |-> <<>>]
    /\ lines_in = [c \in Ctx |-> <<>>]
    /\ oom = [c \in Ctx |-> FALSE]
    /\ enc = [state |-> "none", data |-> <<>>, data_size |-> 0,
              plain |-> <<>>, out |-> <<>>, total_size |-> 0, written |-> 0]

\* SpecInit: init and close on two contexts, every allocation of init may
\* fail; a GET with one header line on the first context
NextInit ==
    \/ \E c \in Ctx, F \in Fails(4) : HasRoom /\ requests_init(c, F)
    \/ \E c \in Ctx : requests_close(c)
    \/ \E u \in Urls : ReqRoom /\ requests_get_call(1, u, {})
    \/ \E rc \in Rcs : requests_get_return(rc, 200)
    \/ \E m \in SmallLines : CbRoom /\ header_callback(1, m, 1, Len(m) - 1, {})

SpecInit == InitAny /\ [][NextInit]_vars

\* the buffers and header strings that context c holds
Owned(c) == Reach(c) \cap OwnedLive

\* the latest init was a successful one on context c, and no context has
\* been closed (or has failed to initialise) since
LatestInit(c) ==
    /\ st[c] = "open"
    /\ \A d \in Ctx : st[d] \in {"uninit", "open"} /\ handle[d] <= handle[c]

\* C12: when init is called after a successful init with no close in
\* between, on the same context or on the other one, the three buffers and
\* the header strings of the first context are released when it returns,
\* and it frees nothing that is not a live allocation.
C12_SecondInitReleasesFirst ==
    [][\A c1 \in Ctx, c2 \in Ctx, F \in Fails(4) :
          (LatestInit(c1) /\ requests_init(c2, F)) =>
              /\ fault' = "none"
              /\ \A p \in Owned(c1) : ~heap'[p].live]_vars

\* what does hold: the second init releases the first context's memory when
\* it is called on the same context
SecondInitOnSameContextReleases ==
    [][\A c1 \in Ctx, F \in Fails(4) :
          (LatestInit(c1) /\ ~oom[c1] /\ requests_init(c1, F)) =>
              /\ fault' = "none"
              /\ \A p \in Owned(c1) : ~heap'[p].live]_vars

\* C18: IS_FIRST is 0 exactly when some context has been initialised
\* successfully and not closed since.
C18_FlagClearIffContextOpen ==
    (IS_FIRST = 0) <=> (\E c \in Ctx : st[c] = "open")

\* what does hold on one context whose curl_easy_init never fails is
\* checked with SpecMem
FlagClearIffContextOpenSingle ==
    fault = "none" => ((IS_FIRST = 0) <=> (st[1] = "open"))

---------------------------------------------------------------------------
(* Close                                                                   *)

\* the header strings that have been released
ReleasedStrings == {p \in 1..Len(heap) : heap[p].kind = "str" /\ ~heap[p].live}

\* C13: on one context on which no allocation has failed, with close called
\* only on an initialised context that has not been closed since, no free
\* is handed a pointer that is not a live allocation (none is freed twice),
\* and once the context is closed none of the header strings and buffers
\* that init, the requests and the callbacks allocated is still allocated.
C13_CloseReleasesOnce ==
    ~oom[1] =>
        /\ fault # "invalid_free"
        /\ fault # "invalid_read"
        /\ st[1] = "closed" => OwnedLive = {}

\* a POST with a custom header, during which a header line arrived, has
\* been made and the context has been closed: both strings were released
C13_Witness ==
    /\ st[1] = "closed" /\ ~oom[1] /\ fault = "none"
    /\ cur.fn = "requests_pt" /\ cur.custom_hdrc = 1
    /\ Cardinality(ReleasedStrings) >= 2

\* C14: after init followed by close, whatever happened in between, the
\* engine handle that init returned has been released.
C14_CloseReleasesHandle ==
    \A c \in Ctx : st[c] = "closed" => ~Valid(heap, handle[c])

\* what does hold: close leaves the handle as it found it, which is
\* released only when a request on it has succeeded
CloseLeavesHandle ==
    [][\A c \in Ctx : requests_close(c) =>
          (Valid(heap', handle'[c]) <=> Valid(heap, handle[c]))]_vars

---------------------------------------------------------------------------
(* req->size                                                               *)

\* the step is a call of resp_callback on context c that returned
Delivery(c) == Len(body_in'[c]) = Len(body_in[c]) + 1 /\ fault' = "none"

\* the chunk that the step delivered
Delivered(c) == body_in'[c][Len(body_in'[c])]

\* C16: req->size is the sum of the lengths size * nmemb of the calls of
\* resp_callback since init that reported success: init sets it to 0, a
\* call that returns the chunk's length adds that length, a call that
\* returns failure leaves it as it was, and nothing else changes it.
C16_SizeCountsAcceptedChunks ==
    [][\A c \in Ctx :
          IF Delivery(c)
          THEN IF ret'.val = 0 - 1
               THEN req'[c].size = req[c].size
               ELSE /\ ret'.val = Len(Delivered(c))
                    /\ req'[c].size = req[c].size + Len(Delivered(c))
          ELSE \/ req'[c].size = req[c].size
               \/ req'[c].size = 0 /\ body_in'[c] = <<>>]_vars

\* what does hold: a call that reports failure has either left req->size
\* alone (the realloc failed) or already added the chunk's length to it
\* (the strndup failed)
SizeCountsChunksReachingStrndup ==
    [][\A c \in Ctx :
          IF Delivery(c)
          THEN IF ret'.val = 0 - 1
               THEN \/ req'[c].size = req[c].size /\ req'[c].text = NULL
                    \/ req'[c].size = req[c].size + Len(Delivered(c))
               ELSE /\ ret'.val = Len(Delivered(c))
                    /\ req'[c].size = req[c].size + Len(Delivered(c))
          ELSE \/ req'[c].size = req[c].size
               \/ req'[c].size = 0 /\ body_in'[c] = <<>>]_vars

---------------------------------------------------------------------------
(* Allocation failures while the header list is built                      *)

\* the first POST/PUT of the behaviour is in its exchange or has returned
FirstPt ==
    /\ cur.fn = "requests_pt" /\ cur.n = 1
    /\ (pc = "perform" \/ Returned({"requests_pt"}))

\* C17: when an allocation failed while requests_pt built the header list
\* (a curl_slist_append, the realloc of req_hdrv or the strndup of a custom
\* header), requests_pt has returned CURLE_OUT_OF_MEMORY and the exchange
\* was not performed.
C17_HeaderAllocFailureReported ==
    (FirstPt /\ oom[cur.c]) =>
        /\ pc = "idle"
        /\ ret.val = CURLE_OUT_OF_MEMORY
        /\ ~cur.performed

\* what does hold: the failure of the realloc, which leaves req_hdrv NULL,
\* is reported that way
ReallocFailureReported ==
    (FirstPt /\ req[cur.c].req_hdrv = NULL) =>
        /\ pc = "idle"
        /\ ret.val = CURLE_OUT_OF_MEMORY
        /\ ~cur.performed

---------------------------------------------------------------------------
(* Repeated requests on one context                                        *)

RetryRoom == cur.n < MaxRetries

\* SpecRetry: one context; init, close, GET and a POST with one custom
\* header (the realloc of req_hdrv may fail), each exchange with every
\* outcome and with deliveries (a chunk "a", a header line "a\r\n") in
\* which the realloc may fail; a second request may follow the first, with
\* or without an init in between
NextRetry ==
    \/ HasRoom /\ requests_init(1, {})
    \/ requests_close(1)
    \/ \E u \in Urls : RetryRoom /\ requests_get_call(1, u, {})
    \/ \E rc \in Rcs : requests_get_return(rc, 200)
    \/ \E u \in Urls, F \in {{}, {4}} :
          RetryRoom /\ requests_pt_call(1, u, CallerPtr, CallerPtr, <<<<97, NUL>>>>,
                                        1, 0, F)
    \/ \E rc \in Rcs : requests_pt_return(rc, 200)
    \/ \E m \in SmallChunks, F \in Fails(1) :
          CbRoom /\ resp_callback(1, m, 1, Len(m) - 1, F)
    \/ \E F \in Fails(1) :
          CbRoom /\ header_callback(1, <<97, CR, LF, NUL>>, 1, 3, F)

SpecRetry == Init /\ [][NextRetry]_vars

\* the header array v of heap h holds n live strings / those strings
HdrOk(h, v, n) ==
    /\ n >= 0 /\ Valid(h, v) /\ Len(h[v].data) >= n
    /\ \A i \in 1..n : Valid(h, h[v].data[i])
HdrStrings(h, v, n) == [i \in 1..n |-> h[h[v].data[i]].data]

\* C15: a successful init leaves code 0, size 0 with an empty body, no
\* request and no response header and ok unset, whatever earlier requests
\* left; code is not 0 only once an exchange has completed; and on a
\* context on which no allocation has failed the body and the response
\* headers are what was delivered since the last init.
C15_InitResets ==
    \A c \in Ctx :
        /\ (Returned({"requests_init"}) /\ ret.val # NULL /\ handle[c] = ret.val) =>
              /\ req[c].code = 0
              /\ req[c].size = 0
              /\ Valid(heap, req[c].text) /\ heap[req[c].text].data = <<NUL>>
              /\ req[c].req_hdrc = 0 /\ Valid(heap, req[c].req_hdrv)
              /\ req[c].resp_hdrc = 0 /\ Valid(heap, req[c].resp_hdrv)
              /\ req[c].ok = OK_UNSET
        /\ (st[c] = "open" /\ req[c].code # 0 /\ fault = "none") =>
              Returned(Requests) /\ ret.val = CURLE_OK /\ cur.c = c
        /\ (st[c] = "open" /\ ~oom[c] /\ fault = "none") =>
              /\ req[c].size = Len(Concat(body_in[c]))
              /\ Valid(heap, req[c].text)
              /\ CStr(heap[req[c].text].data) = Concat(body_in[c])
              /\ req[c].resp_hdrc = Len(lines_in[c])
              /\ HdrOk(heap, req[c].resp_hdrv, req[c].resp_hdrc)
              /\ HdrStrings(heap, req[c].resp_hdrv, req[c].resp_hdrc)
                    = [i \in 1..Len(lines_in[c]) |-> lines_in[c][i] \o <<NUL>>]

\* init -> request with a chunk -> init -> request with a chunk,
\* completed: a user agent string and a grown body buffer are older than
\* the handle of the context
C15_Witness ==
    /\ Returned(Requests) /\ ret.val = CURLE_OK /\ cur.n = 2
    /\ cur.curl = handle[1] /\ ~oom[1] /\ st[1] = "open"
    /\ \E p \in 1..(handle[1] - 1) : heap[p].kind = "ua"
    /\ \E p \in 2..(handle[1] - 4) : heap[p].kind = "text"
    /\ Len(body_in[1]) = 1 /\ req[1].size = 1

\* when a request has returned, its handle has been released if and only
\* if the exchange returned CURLE_OK
ReleasedIffSuccess ==
    Returned(Requests) =>
        (~Valid(heap, cur.curl) <=> (cur.performed /\ cur.prc = CURLE_OK))

\* a request made on handle p has returned without a successful exchange
\* (a failed exchange, or the CURLE_OUT_OF_MEMORY return): the user agent
\* string it allocated is still allocated, as only the successful return
\* frees it
EarlierFailure(p) ==
    \E u \in (p + 1)..Len(heap) :
        /\ heap[u].kind = "ua" /\ heap[u].live
        /\ pc = "perform" => u # cur.ua

---------------------------------------------------------------------------
(* What a context accumulates                                              *)

IsPrefix(a, b) == Len(a) <= Len(b) /\ SubSeq(b, 1, Len(a)) = a

\* the step leaves context c initialised and is not an init on it
Continues(c) == st[c] = "open" /\ st'[c] = "open" /\ handle'[c] = handle[c]

\* the body bytes held before the step are still held after it, at the
\* front
BodyKept(c) ==
    (Valid(heap, req[c].text) /\ CStr(heap[req[c].text].data) # <<>>) =>
        /\ Valid(heap', req'[c].text)
        /\ IsPrefix(CStr(heap[req[c].text].data), CStr(heap'[req'[c].text].data))
        /\ req'[c].size >= req[c].size

\* the n strings of the header array v before the step are the first n of
\* the n2 strings of the array v2 after it
HeadersKept(v, n, v2, n2) ==
    (HdrOk(heap, v, n) /\ n > 0) =>
        /\ HdrOk(heap', v2, n2)
        /\ n2 >= n
        /\ SubSeq(HdrStrings(heap', v2, n2), 1, n) = HdrStrings(heap, v, n)

Kept(c) ==
    /\ BodyKept(c)
    /\ HeadersKept(req[c].resp_hdrv, req[c].resp_hdrc,
                   req'[c].resp_hdrv, req'[c].resp_hdrc)
    /\ HeadersKept(req[c].req_hdrv, req[c].req_hdrc,
                   req'[c].req_hdrv, req'[c].req_hdrc)

\* the step is a call of requests_pt on context c that goes on to the
\* exchange / it has added the custom headers of the call to req_hdrv
PtCalled(c) ==
    /\ pc = "idle" /\ pc' = "perform"
    /\ cur'.fn = "requests_pt" /\ cur'.c = c
HeadersAdded(c) ==
    HdrOk(heap, req[c].req_hdrv, req[c].req_hdrc) =>
        /\ HdrOk(heap', req'[c].req_hdrv, req'[c].req_hdrc)
        /\ HdrStrings(heap', req'[c].req_hdrv, req'[c].req_hdrc)
              = HdrStrings(heap, req[c].req_hdrv, req[c].req_hdrc)
                   \o SubSeq(cur'.hdrs, 1, cur'.custom_hdrc)

\* on a context on which every delivery was stored, size and resp_hdrc are
\* the totals delivered since the last init
Totals ==
    \A c \in Ctx : (st[c] = "open" /\ ~oom[c] /\ fault = "none") =>
        /\ req[c].size = Len(Concat(body_in[c]))
        /\ req[c].resp_hdrc = Len(lines_in[c])

\* C20: nothing rolls back what a context has accumulated since its last
\* init: whatever an exchange does and however it ends, the body bytes and
\* the response header lines stored before stay and later deliveries, of
\* that exchange or of a retry, are appended to them, so that size and
\* resp_hdrc are the totals since the last init; and each requests_pt call
\* appends its custom headers to req_hdrv.
C20_AccumulatesAcrossExchanges ==
    /\ []Totals
    /\ [][\A c \in Ctx : Continues(c) => Kept(c)]_vars
    /\ [][\A c \in Ctx : (Continues(c) /\ PtCalled(c)) => HeadersAdded(c)]_vars

\* what does hold: the same, for the steps in which no allocation has
\* failed on the context
AccumulatesUnlessAllocationFails ==
    /\ []Totals
    /\ [][\A c \in Ctx : (Continues(c) /\ ~oom'[c]) => Kept(c)]_vars
    /\ [][\A c \in Ctx : (Continues(c) /\ PtCalled(c) /\ ~oom'[c]) =>
             HeadersAdded(c)]_vars

====
